---- MODULE Spec2Model ----
(***************************************************************************)
(* SumTube: a Discord interactions webhook (Cloudflare worker, Hono) that  *)
(* answers the /summarize command with a deferred acknowledgment and then  *)
(* edits the placeholder message with a Gemini summary of a YouTube video. *)
(*                                                                         *)
(* Text is modelled as sequences of one-character strings, so that the     *)
(* regular expression of the link extractor, String.prototype.includes,    *)
(* trim and toLowerCase are computed character by character.               *)
(***************************************************************************)
EXTENDS Integers, Sequences, FiniteSets, TLC

(***************************************************************************)
(* Characters and strings                                                  *)
(***************************************************************************)

\* Unicode simple lower-casing restricted to the ASCII letters
\* (String.prototype.toLowerCase, and the canonicalisation of the i flag).
LowerMap ==
    ("A" :> "a") @@ ("B" :> "b") @@ ("C" :> "c") @@ ("D" :> "d") @@ ("E" :> "e") @@ ("F" :> "f") @@
    ("G" :> "g") @@ ("H" :> "h") @@ ("I" :> "i") @@ ("J" :> "j") @@ ("K" :> "k") @@ ("L" :> "l") @@
    ("M" :> "m") @@ ("N" :> "n") @@ ("O" :> "o") @@ ("P" :> "p") @@ ("Q" :> "q") @@ ("R" :> "r") @@
    ("S" :> "s") @@ ("T" :> "t") @@ ("U" :> "u") @@ ("V" :> "v") @@ ("W" :> "w") @@ ("X" :> "x") @@
    ("Y" :> "y") @@ ("Z" :> "z")

LowerChar(c) == IF c \in DOMAIN LowerMap THEN LowerMap[c] ELSE c

toLowerCase(s) == [k \in 1..Len(s) |-> LowerChar(s[k])]

\* ECMAScript WhiteSpace and LineTerminator code points that occur in the inputs.
LineTerminators == {"\n", "\r"}

WhiteSpace == {" ", "\t"} \cup LineTerminators

\* String.prototype.includes: a case-sensitive substring test.
includes(s, sub) ==
    \E i \in 1..(Len(s) - Len(sub) + 1) : SubSeq(s, i, i + Len(sub) - 1) = sub

\* String.prototype.trim: drops leading and trailing white space.
trim(s) ==
    LET keep == {k \in 1..Len(s) : s[k] \notin WhiteSpace}
    IN  IF keep = {} THEN <<>>
        ELSE SubSeq(s, CHOOSE a \in keep : \A b \in keep : a <= b,
                       CHOOSE a \in keep : \A b \in keep : a >= b)

MinOf(S) == CHOOSE a \in S : \A b \in S : a <= b

MaxOf(S) == CHOOSE a \in S : \A b \in S : a >= b

\* The elements of a finite set of integers, largest first: the order in which a
\* greedy quantifier hands its candidate end positions to the rest of the pattern.
RECURSIVE Descending(_)
Descending(S) == IF S = {} THEN <<>> ELSE <<MaxOf(S)>> \o Descending(S \ {MaxOf(S)})

RECURSIVE Flatten(_)
Flatten(ss) == IF ss = <<>> THEN <<>> ELSE Head(ss) \o Flatten(Tail(ss))

(***************************************************************************)
(* The link pattern of containsYouTubeLink / extractYouTubeLinks:          *)
(*   /(?:https?:\/\/)?(?:www\.)?(?:youtube\.com\/(?:[^/]+\/.+\/|           *)
(*     (?:v|e(?:mbed)?)\/|.*[?&]v=)|youtu\.be\/)([^"&?/\s]{11})/gi         *)
(* Every operator below returns the positions at which the rest of the     *)
(* pattern may continue, in the order the backtracking matcher tries them. *)
(* Positions are 1-based indexes of the next character to be read.         *)
(***************************************************************************)

\* Length of the capture group ([^"&?/\s]{11}).
VideoIdLength == 11

\* A literal of the pattern at position p; the i flag compares case-folded.
MatchLiteral(s, p, lit) ==
    /\ p + Len(lit) - 1 <= Len(s)
    /\ \A k \in 1..Len(lit) : LowerChar(s[p + k - 1]) = lit[k]

\* (?:https?:\/\/)?  greedy: with the scheme first, then without it.
AfterScheme(s, p) ==
    IF MatchLiteral(s, p, <<"h", "t", "t", "p", "s", ":", "/", "/">>) THEN <<p + 8, p>>
    ELSE IF MatchLiteral(s, p, <<"h", "t", "t", "p", ":", "/", "/">>) THEN <<p + 7, p>>
    ELSE <<p>>

\* (?:www\.)?  greedy: with the prefix first, then without it.
AfterWww(s, p) ==
    IF MatchLiteral(s, p, <<"w", "w", "w", ".">>) THEN <<p + 4, p>> ELSE <<p>>

\* seq with d added to every element.
Shift(seq, d) == [i \in 1..Len(seq) |-> seq[i] + d]

\* .+\/ after the slash at f: .+ is greedy over non-line-terminators and gives
\* back one character at a time until a slash follows it.
SegmentEnds(s, f) ==
    Shift(Descending({k \in (f + 2)..Len(s) :
                         /\ s[k] = "/"
                         /\ \A j \in (f + 1)..(k - 1) : s[j] \notin LineTerminators}), 1)

\* [^/]+\/.+\/  [^/]+ cannot cross a slash and must be followed by one, so it
\* ends at the first slash, which must not be the first character.
FirstSlash(s, b, slashes) ==
    IF slashes = {} \/ b \in slashes THEN <<>> ELSE SegmentEnds(s, MinOf(slashes))

PathSegments(s, b) == FirstSlash(s, b, {k \in b..Len(s) : s[k] = "/"})

\* (?:v|e(?:mbed)?)\/
EmbedPath(s, b) ==
    (IF MatchLiteral(s, b, <<"v", "/">>) THEN <<b + 2>> ELSE <<>>)
    \o (IF MatchLiteral(s, b, <<"e", "m", "b", "e", "d", "/">>) THEN <<b + 6>> ELSE <<>>)
    \o (IF MatchLiteral(s, b, <<"e", "/">>) THEN <<b + 2>> ELSE <<>>)

\* .*[?&]v=  .* is greedy over non-line-terminators: the last "?v=" or "&v="
\* of the line is tried first.
QueryParam(s, b) ==
    Shift(Descending({k \in b..Len(s) :
                         /\ s[k] \in {"?", "&"}
                         /\ MatchLiteral(s, k + 1, <<"v", "=">>)
                         /\ \A j \in b..(k - 1) : s[j] \notin LineTerminators}), 3)

\* (?:youtube\.com\/(?:...|...|...)|youtu\.be\/)
AfterHost(s, a) ==
    (IF MatchLiteral(s, a, <<"y", "o", "u", "t", "u", "b", "e", ".", "c", "o", "m", "/">>)
     THEN PathSegments(s, a + 12) \o EmbedPath(s, a + 12) \o QueryParam(s, a + 12)
     ELSE <<>>)
    \o (IF MatchLiteral(s, a, <<"y", "o", "u", "t", "u", ".", "b", "e", "/">>) THEN <<a + 9>> ELSE <<>>)

WwwStarts(s, sch) == Flatten([i \in 1..Len(sch) |-> AfterWww(s, sch[i])])

HostStarts(s, www) == Flatten([i \in 1..Len(www) |-> AfterHost(s, www[i])])

\* The start positions of the capture group the matcher tries for a match
\* that begins at p, in backtracking order.
GroupStarts(s, p) == HostStarts(s, WwwStarts(s, AfterScheme(s, p)))

\* Faulty variant: the capture group as [^\s]{11}, without the excluded punctuation.
VideoIdAt_AnyPunctuation(s, q) ==
    /\ q + VideoIdLength - 1 <= Len(s)
    /\ \A k \in q..(q + VideoIdLength - 1) : s[k] \notin WhiteSpace

\* ([^"&?/\s]{11}) at position q.
VideoIdAt(s, q) ==
    /\ q + VideoIdLength - 1 <= Len(s)
    /\ \A k \in q..(q + VideoIdLength - 1) : s[k] \notin ({"\"", "&", "?", "/"} \cup WhiteSpace)

\* The first of the candidate group starts qs at which the capture group
\* matches, or 0.
FirstVideoId(s, qs) ==
    LET ok == {i \in 1..Len(qs) : VideoIdAt(s, qs[i])}
    IN  IF ok = {} THEN 0 ELSE qs[MinOf(ok)]

\* The match that begins at p: the start of its capture group, or 0.
MatchAt(s, p) == FirstVideoId(s, GroupStarts(s, p))

NoMatch == [index |-> 0, url |-> <<>>, videoId |-> <<>>, lastIndex |-> 0]

\* The match object: index, url = match[0], videoId = match[1], and the
\* regex's new lastIndex, the 0-based index after the match.
Match(s, p, q) ==
    [index     |-> p,
     url       |-> SubSeq(s, p, q + VideoIdLength - 1),
     videoId   |-> SubSeq(s, q, q + VideoIdLength - 1),
     lastIndex |-> q + VideoIdLength - 1]

LeftmostMatch(s, starts) ==
    IF starts = {} THEN NoMatch ELSE Match(s, MinOf(starts), MatchAt(s, MinOf(starts)))

\* RegExp.prototype.exec with the g flag: the leftmost match that begins at
\* or after lastIndex (0-based), or NoMatch (null).
RegExpExec(s, lastIndex) ==
    LeftmostMatch(s, {p \in (lastIndex + 1)..Len(s) : MatchAt(s, p) # 0})

\* youtubeRegex.test(content) on a fresh regex object (lastIndex = 0).
containsYouTubeLink(content) == RegExpExec(content, 0) # NoMatch

\* while ((match = youtubeRegex.exec(content)) !== null) links.push(...)
RECURSIVE ExecLoop(_, _, _)
PushMatch(content, links, match) ==
    IF match = NoMatch THEN links
    ELSE ExecLoop(content, match.lastIndex,
                  Append(links, [url |-> match.url, videoId |-> match.videoId]))

ExecLoop(content, lastIndex, links) ==
    PushMatch(content, links, RegExpExec(content, lastIndex))

\* Faulty variant: one regex object shared with containsYouTubeLink, so that
\* exec goes on from the lastIndex the test of the handler has left.
extractYouTubeLinks_SharedRegex(content) ==
    ExecLoop(content, RegExpExec(content, 0).lastIndex, <<>>)

extractYouTubeLinks(content) == ExecLoop(content, 0, <<>>)

(***************************************************************************)
(* JavaScript values that cross the provider boundary.  A value is a       *)
(* record [type, chars]; chars is the text of a string and <<>> otherwise. *)
(***************************************************************************)

Undefined == [type |-> "undefined", chars |-> <<>>]

Null == [type |-> "null", chars |-> <<>>]

Number == [type |-> "number", chars |-> <<>>]

String(cs) == [type |-> "string", chars |-> cs]

\* A thrown object with the given message property.
ErrorObject(message) == [type |-> "object", message |-> message]

\* throw undefined / throw null: a thrown value that is no object.
ThrownNullish == {[type |-> "undefined", message |-> Undefined],
                  [type |-> "null", message |-> Undefined]}

Resolved(text) == [settled |-> "fulfilled", text |-> text, error |-> ErrorObject(Undefined)]

Rejected(error) == [settled |-> "rejected", text |-> Undefined, error |-> error]

(***************************************************************************)
(* summarizeWithGemini (src/gemini.ts).  Its result is [threw, msg, text]: *)
(* msg names the fixed user-facing sentence, text the variable part.       *)
(***************************************************************************)

Return(msg, text) == [threw |-> FALSE, msg |-> msg, text |-> text]

Throw(msg) == [threw |-> TRUE, msg |-> msg, text |-> <<>>]

KeyNotConfigured == Return("Gemini API key not configured", <<>>)

NoSummary == Return("Gemini API did not return a summary", <<>>)

InvalidKey == Return("Invalid API key", <<>>)

QuotaExceeded == Return("API quota exceeded", <<>>)

ContentBlocked == Return("Content was blocked", <<>>)

VideoNotFound == Return("Video not found", <<>>)

UnknownErrorText == <<"U", "n", "k", "n", "o", "w", "n", " ", "e", "r", "r", "o", "r", " ", "o", "c", "c", "u", "r", "r", "e", "d">>

\* error.message || 'Unknown error occurred' inside the template literal.
GenericError(message) ==
    Return("Error calling Gemini API: ",
           IF message.type = "string" /\ message.chars # <<>> THEN message.chars
           ELSE UnknownErrorText)

\* Faulty variant: the quota test placed before the API key test.
CatchBlock_QuotaFirst(error) ==
    IF error.type \in {"undefined", "null"} THEN Throw("TypeError")
    ELSE LET message == error.message
         IN  IF message.type \in {"undefined", "null"} THEN GenericError(message)
             ELSE IF message.type # "string" THEN Throw("TypeError")
             ELSE IF includes(message.chars, <<"q", "u", "o", "t", "a">>) THEN QuotaExceeded
             ELSE IF includes(message.chars, <<"A", "P", "I", " ", "k", "e", "y">>) THEN InvalidKey
             ELSE IF includes(message.chars, <<"b", "l", "o", "c", "k", "e", "d">>) THEN ContentBlocked
             ELSE IF includes(message.chars, <<"n", "o", "t", " ", "f", "o", "u", "n", "d">>) THEN VideoNotFound
             ELSE GenericError(message)

\* Faulty variant: no quota branch, a quota error falls through to the rest.
CatchBlock_NoQuotaBranch(error) ==
    IF error.type \in {"undefined", "null"} THEN Throw("TypeError")
    ELSE LET message == error.message
         IN  IF message.type \in {"undefined", "null"} THEN GenericError(message)
             ELSE IF message.type # "string" THEN Throw("TypeError")
             ELSE IF includes(message.chars, <<"A", "P", "I", " ", "k", "e", "y">>) THEN InvalidKey
             ELSE IF includes(message.chars, <<"b", "l", "o", "c", "k", "e", "d">>) THEN ContentBlocked
             ELSE IF includes(message.chars, <<"n", "o", "t", " ", "f", "o", "u", "n", "d">>) THEN VideoNotFound
             ELSE GenericError(message)

\* The catch block: error.message is read first (the "Error details" log),
\* then error.message?.includes(...) is tried for each keyword in turn.
\* Reading a property of undefined or null raises a TypeError, and so does
\* calling includes on a message that is neither nullish nor a string.
CatchBlock(error) ==
    IF error.type \in {"undefined", "null"} THEN Throw("TypeError")
    ELSE LET message == error.message
         IN  IF message.type \in {"undefined", "null"} THEN GenericError(message)
             ELSE IF message.type # "string" THEN Throw("TypeError")
             ELSE IF includes(message.chars, <<"A", "P", "I", " ", "k", "e", "y">>) THEN InvalidKey
             ELSE IF includes(message.chars, <<"q", "u", "o", "t", "a">>) THEN QuotaExceeded
             ELSE IF includes(message.chars, <<"b", "l", "o", "c", "k", "e", "d">>) THEN ContentBlocked
             ELSE IF includes(message.chars, <<"n", "o", "t", " ", "f", "o", "u", "n", "d">>) THEN VideoNotFound
             ELSE GenericError(message)

\* The part of summarizeWithGemini after await ai.models.generateContent:
\* summary = response.text; summary && summary.trim() ? summary.trim() : ...
AfterGenerateContent(outcome) ==
    IF outcome.settled = "rejected" THEN CatchBlock(outcome.error)
    ELSE IF outcome.text.type = "string" /\ trim(outcome.text.chars) # <<>>
         THEN Return("", trim(outcome.text.chars))
         ELSE NoSummary

\* Faulty variant: the key is not looked at.
CallsProvider_Always(env) == TRUE

\* if (!env.GEMINI_API_KEY): the part before the await.  TRUE when the
\* function goes on to call the provider.
CallsProvider(env) == env.GEMINI_API_KEY # <<>>

(***************************************************************************)
(* POST /discord: the synchronous part of the handler                      *)
(***************************************************************************)

\* InteractionType.PING and InteractionType.APPLICATION_COMMAND.
PING == 1

APPLICATION_COMMAND == 2

\* InteractionResponseType.PONG, .CHANNEL_MESSAGE_WITH_SOURCE, and the literal
\* type: 5 (DEFERRED_CHANNEL_MESSAGE_WITH_SOURCE) of deferredResponse.
PONG == 1

CHANNEL_MESSAGE_WITH_SOURCE == 4

DEFERRED_CHANNEL_MESSAGE_WITH_SOURCE == 5

\* ABOUT_COMMAND.name and SUMMARIZE_COMMAND.name (./commands).
AboutCommandName == <<"a", "b", "o", "u", "t">>

SummarizeCommandName == <<"s", "u", "m", "m", "a", "r", "i", "z", "e">>

\* An HTTP response: c.json(body, status) or c.text(text, status).  type is
\* the interaction response type of a JSON body, 0 when the body has none.
Response(status, type, content) == [status |-> status, type |-> type, content |-> content]

\* Faulty variant: the timestamp header is not required.
verifyDiscordRequest_NoTimestamp(request) ==
    [isValid |-> request.signature /\ request.verifyKey,
     parsed  |-> request.signature /\ request.verifyKey]

\* verifyDiscordRequest: both headers must be truthy and verifyKey must accept;
\* the body is parsed only then.
verifyDiscordRequest(request) ==
    LET isValidRequest == request.signature /\ request.timestamp /\ request.verifyKey
    IN  [isValid |-> isValidRequest, parsed |-> isValidRequest]

\* interaction.data?.options?.find(option => option.name === 'url'), then
\* urlOption?.value: <<>> stands for a missing option as well as for an empty value.
FirstOptionValue(options, hits) == IF hits = {} THEN <<>> ELSE options[MinOf(hits)].value

\* Faulty variant: the first option is taken whatever its name (options[0].value).
UrlOptionValue_FirstOption(data) ==
    IF data.options = <<>> THEN <<>> ELSE data.options[1].value

UrlOptionValue(data) ==
    FirstOptionValue(data.options,
                     {i \in 1..Len(data.options) : data.options[i].name = <<"u", "r", "l">>})

\* const deferredResponse = c.json({type: 5})
DeferredResponse == Response(200, DEFERRED_CHANNEL_MESSAGE_WITH_SOURCE, "")

NoDefer(reply) == [defer |-> FALSE, videoId |-> <<>>, reply |-> reply]

\* After the containsYouTubeLink check: youtubeLinks.length > 0 takes the
\* deferred path with youtubeLinks[0].videoId.
WithLinks(youtubeLinks) ==
    IF Len(youtubeLinks) > 0
    THEN [defer |-> TRUE, videoId |-> youtubeLinks[1].videoId, reply |-> DeferredResponse]
    ELSE NoDefer(Response(200, CHANNEL_MESSAGE_WITH_SOURCE,
                          "Could not extract video ID from the provided URL."))

\* The summarize case for the value of the url option.
SummarizeUrl(url) ==
    IF url = <<>>
    THEN NoDefer(Response(200, CHANNEL_MESSAGE_WITH_SOURCE,
                          "Please provide a YouTube URL to summarize."))
    ELSE IF ~containsYouTubeLink(url)
    THEN NoDefer(Response(200, CHANNEL_MESSAGE_WITH_SOURCE,
                          "Please provide a valid YouTube URL."))
    ELSE WithLinks(extractYouTubeLinks(url))

\* Faulty variant: the default case answers with the informational reply.
CommandCase_DefaultReplies(data, name) ==
    IF ~data.present
    THEN NoDefer(Response(200, CHANNEL_MESSAGE_WITH_SOURCE, "I'm a YouTube summarizer bot!"))
    ELSE IF name = toLowerCase(AboutCommandName)
    THEN NoDefer(Response(200, CHANNEL_MESSAGE_WITH_SOURCE, "YouTube Summarizer Bot"))
    ELSE IF name = toLowerCase(SummarizeCommandName)
    THEN SummarizeUrl(UrlOptionValue(data))
    ELSE NoDefer(Response(200, CHANNEL_MESSAGE_WITH_SOURCE, "I'm a YouTube summarizer bot!"))

\* The command switch on interaction.data?.name.toLowerCase().
CommandCase(data, name) ==
    IF ~data.present THEN NoDefer(Response(400, 0, "Unknown Command"))
    ELSE IF name = toLowerCase(AboutCommandName)
    THEN NoDefer(Response(200, CHANNEL_MESSAGE_WITH_SOURCE, "YouTube Summarizer Bot"))
    ELSE IF name = toLowerCase(SummarizeCommandName)
    THEN SummarizeUrl(UrlOptionValue(data))
    ELSE NoDefer(Response(400, 0, "Unknown Command"))

\* Faulty variant: a payload with command data is dispatched as a command
\* whatever its type.
Dispatch_DataFirst(interaction) ==
    IF interaction.data.present
    THEN CommandCase(interaction.data, toLowerCase(interaction.data.name))
    ELSE IF interaction.type = PING THEN NoDefer(Response(200, PONG, ""))
    ELSE NoDefer(Response(200, CHANNEL_MESSAGE_WITH_SOURCE, "I'm a YouTube summarizer bot!"))

\* The handler after the signature check: [defer, videoId, reply].  defer is
\* TRUE on the path that builds deferredResponse and starts the background task.
Dispatch(interaction) ==
    IF interaction.type = PING THEN NoDefer(Response(200, PONG, ""))
    ELSE IF interaction.type = APPLICATION_COMMAND
    THEN CommandCase(interaction.data, toLowerCase(interaction.data.name))
    ELSE NoDefer(Response(200, CHANNEL_MESSAGE_WITH_SOURCE, "I'm a YouTube summarizer bot!"))

\* const videoUrl = `https://www.youtube.com/watch?v=${videoId}`
VideoUrl(videoId) == <<"h", "t", "t", "p", "s", ":", "/", "/", "w", "w", "w", ".", "y", "o", "u", "t", "u", "b", "e", ".", "c", "o", "m", "/", "w", "a", "t", "c", "h", "?", "v", "=">> \o videoId

(***************************************************************************)
(* The bodies of the follow-up PATCH requests                              *)
(***************************************************************************)

\* export const model
GeminiModel == "gemini-2.5-flash"

\* `**YouTube Video Summary**\n\n... ${url}\n\n${summary}\n\n... ${model}*`
SummaryContent(url, summary) ==
    [kind |-> "YouTube Video Summary", url |-> url, msg |-> summary.msg,
     text |-> summary.text, model |-> GeminiModel]

\* `Sorry, I couldn't summarize this video.\n ```${errorText}``` `
DegradedContent(errorText) ==
    [kind |-> "Sorry, I couldn't summarize this video.", url |-> <<>>, msg |-> "",
     text |-> errorText, model |-> ""]

\* `Sorry, I couldn't summarize this video. Please try again later.\n\n... ${url}`
ApologyContent(url) ==
    [kind |-> "Sorry, I couldn't summarize this video. Please try again later.",
     url |-> url, msg |-> "", text |-> <<>>, model |-> ""]

\* Faulty variant: the token is kept in one place shared by all invocations.
Patch_SharedToken(env, interaction, content) ==
    [ev |-> "PATCH", applicationId |-> env.DISCORD_APPLICATION_ID,
     token |-> "r1", content |-> content]

\* fetch(`.../webhooks/${env.DISCORD_APPLICATION_ID}/${interaction.token}/messages/@original`,
\*       {method: 'PATCH', body: JSON.stringify({content})})
Patch(env, interaction, content) ==
    [ev |-> "PATCH", applicationId |-> env.DISCORD_APPLICATION_ID,
     token |-> interaction.token, content |-> content]

(***************************************************************************)
(* Inputs                                                                  *)
(***************************************************************************)

\* The invocations that may be in flight at once.
Requests == {"r1", "r2"}

\* url option values that hold a link, and values that hold none.
LinkTexts ==
    {<<"h", "t", "t", "p", "s", ":", "/", "/", "y", "o", "u", "t", "u", ".", "b", "e", "/", "d", "Q", "w", "4", "w", "9", "W", "g", "X", "c", "Q">>,
     <<"y", "o", "u", "t", "u", "b", "e", ".", "c", "o", "m", "/", "w", "a", "t", "c", "h", "?", "v", "=", "a", "b", "c", "D", "E", "F", "1", "2", "3", "4", "5", "&", "t", "=", "9">>,
     <<"y", "o", "u", "t", "u", ".", "b", "e", "/", "A", "A", "A", "A", "A", "A", "A", "A", "A", "A", "A", " ", "w", "w", "w", ".", "y", "o", "u", "t", "u", "b", "e", ".", "c", "o", "m", "/", "e", "m", "b", "e", "d", "/", "B", "B", "B", "B", "B", "B", "B", "B", "B", "B", "B">>}

PlainTexts ==
    {<<"h", "e", "l", "l", "o">>,
     <<"h", "t", "t", "p", "s", ":", "/", "/", "y", "o", "u", "t", "u", ".", "b", "e", "/", "s", "h", "o", "r", "t">>,
     <<"h", "t", "t", "p", "s", ":", "/", "/", "w", "w", "w", ".", "y", "o", "u", "t", "u", "b", "e", ".", "c", "o", "m", "/", "w", "a", "t", "c", "h">>,
     <<"y", "o", "u", "t", "u", ".", "b", "e", "/", "d", "Q", "w", "4", "w", "?", "W", "g", "X", "c", "Q">>}

Option(name, value) == [name |-> name, value |-> value]

Data(name, options) == [present |-> TRUE, name |-> name, options |-> options]

\* An interaction without a data member.
NoData == [present |-> FALSE, name |-> <<>>, options |-> <<>>]

UrlName == <<"u", "r", "l">>

SummarizeData ==
    {Data(<<"s", "u", "m", "m", "a", "r", "i", "z", "e">>, opts) : opts \in
        {<<>>, <<Option(<<"l", "a", "n", "g">>, <<"e", "n">>)>>, <<Option(UrlName, <<>>)>>}
        \cup {<<Option(UrlName, u)>> : u \in LinkTexts \cup PlainTexts}}
    \cup {Data(<<"S", "u", "m", "m", "a", "r", "i", "z", "e">>, <<Option(<<"l", "a", "n", "g">>, <<"e", "n">>), Option(UrlName, <<"h", "t", "t", "p", "s", ":", "/", "/", "y", "o", "u", "t", "u", ".", "b", "e", "/", "d", "Q", "w", "4", "w", "9", "W", "g", "X", "c", "Q">>)>>)}

CommandData ==
    SummarizeData
    \cup {NoData, Data(<<"a", "b", "o", "u", "t">>, <<>>), Data(<<"A", "b", "o", "u", "t">>, <<>>),
          Data(<<"h", "e", "l", "p">>, <<>>)}

\* Interaction bodies: a ping, a message component (type 3), and commands.
Bodies ==
    {[type |-> PING, data |-> NoData], [type |-> 3, data |-> NoData],
     [type |-> PING, data |-> Data(<<"s", "u", "m", "m", "a", "r", "i", "z", "e">>, <<Option(UrlName, <<"h", "t", "t", "p", "s", ":", "/", "/", "y", "o", "u", "t", "u", ".", "b", "e", "/", "d", "Q", "w", "4", "w", "9", "W", "g", "X", "c", "Q">>)>>)]}
    \cup {[type |-> APPLICATION_COMMAND, data |-> d] : d \in CommandData}

\* Requests with a signature that verifies, and requests that fail the check
\* in each of the three ways.
HttpRequests ==
    {[signature |-> TRUE, timestamp |-> TRUE, verifyKey |-> TRUE, body |-> b] : b \in Bodies}
    \cup {[signature |-> h[1], timestamp |-> h[2], verifyKey |-> h[3], body |-> b] :
            h \in {<<FALSE, TRUE, TRUE>>, <<TRUE, FALSE, TRUE>>, <<TRUE, TRUE, FALSE>>},
            b \in {x \in Bodies : x.type = PING \/ (x.data.present /\ x.data.options # <<>>
                                     /\ x.data.options[1].value \in LinkTexts)}}

\* What ai.models.generateContent may settle with.
ProviderOutcomes ==
    {Resolved(String(<<" ", "A", " ", "s", "u", "m", "m", "a", "r", "y", ".", "\n">>)), Resolved(String(<<" ", "\n">>)), Resolved(Undefined),
     Rejected(ErrorObject(String(<<"Y", "o", "u", " ", "e", "x", "c", "e", "e", "d", "e", "d", " ", "y", "o", "u", "r", " ", "c", "u", "r", "r", "e", "n", "t", " ", "q", "u", "o", "t", "a">>))),
     Rejected(ErrorObject(String(<<"q", "u", "o", "t", "a", ":", " ", "A", "P", "I", " ", "k", "e", "y", " ", "n", "o", "t", " ", "v", "a", "l", "i", "d">>))),
     Rejected(ErrorObject(String(<<"f", "e", "t", "c", "h", " ", "f", "a", "i", "l", "e", "d">>))),
     Rejected(ErrorObject(Undefined)),
     Rejected(ErrorObject(Number))}
    \cup {Rejected(e) : e \in ThrownNullish}

\* What a fetch of the follow-up endpoint may settle with: a response with
\* ok true, a response with ok false, or a rejection (network error).
FetchOutcomes == {"ok", "not ok", "rejected"}

\* What editResponse.text() may settle with.
BodyOutcomes ==
    {[settled |-> "fulfilled", text |-> <<"U", "n", "k", "n", "o", "w", "n", " ", "W", "e", "b", "h", "o", "o", "k">>],
     [settled |-> "rejected", text |-> <<>>]}

\* env: the bindings of the worker.
Environments ==
    {[GEMINI_API_KEY |-> k, DISCORD_APPLICATION_ID |-> "app"] : k \in {<<>>, <<"k", "e", "y">>}}

(***************************************************************************)
(* State                                                                   *)
(***************************************************************************)

VARIABLES
    env,       \* the worker's bindings
    request,   \* request[r]: the HTTP request of invocation r, once received
    hpc,       \* hpc[r]: where the handler of r stands
    response,  \* response[r]: the synchronous response, once returned
    tpc,       \* tpc[r]: where the background task of r stands
    tracked,   \* tracked[r]: the task's promise was passed to executionCtx.waitUntil
    videoId,   \* videoId[r]: the handler's local `videoId`
    summary,   \* summary[r]: the value of the task's local `summary`
    log,       \* log[r]: what r did to the outside world, oldest first
    call       \* one call of summarizeWithGemini taken on its own

vars == <<env, request, hpc, response, tpc, tracked, videoId, summary, log, call>>

NoRequest == [signature |-> FALSE, timestamp |-> FALSE, verifyKey |-> FALSE,
              body |-> [type |-> 0, data |-> NoData]]

NoResponse == Response(0, 0, "")

NoSummaryYet == Return("", <<>>)

\* interaction: the parsed body together with the token Discord gave this invocation.
Interaction(r) == [type |-> request[r].body.type, data |-> request[r].body.data, token |-> r]

Url(r) == UrlOptionValue(request[r].body.data)

\* Handler positions between `await verifyDiscordRequest` and the return of
\* the response: one synchronous run of the event loop, which no other
\* callback of the worker can interleave with.
Synchronous == {"deferred", "spawned", "registered"}

MayRun(r) == \A q \in Requests \ {r} : hpc[q] \notin Synchronous

\* r does the given things to the outside world, in this order.
Emit(r, events) == log' = [log EXCEPT ![r] = @ \o events]

\* An awaited call of r settled.
Settled(what, outcome) == [ev |-> what, outcome |-> outcome]

\* extractYouTubeLinks(url) returned links and youtubeLinks[0].videoId was taken.
Extracted(id) == [ev |-> "extract", videoId |-> id]

\* ai.models.generateContent settled with the given value.
ProviderSettled(outcome) == [ev |-> "provider", settled |-> outcome]

\* No call of summarizeWithGemini is being looked at on its own.
NoCall == [pc |-> "none", outcome |-> Resolved(Undefined), result |-> NoSummaryYet]

Init ==
    /\ env \in Environments
    /\ call = NoCall
    /\ request = [r \in Requests |-> NoRequest]
    /\ hpc = [r \in Requests |-> "idle"]
    /\ response = [r \in Requests |-> NoResponse]
    /\ tpc = [r \in Requests |-> "none"]
    /\ tracked = [r \in Requests |-> FALSE]
    /\ videoId = [r \in Requests |-> <<>>]
    /\ summary = [r \in Requests |-> NoSummaryYet]
    /\ log = [r \in Requests |-> <<>>]

(***************************************************************************)
(* The handler                                                             *)
(***************************************************************************)

\* A request reaches app.post("/discord"); the handler reads the body and
\* awaits verifyDiscordRequest.
Receive(r) ==
    /\ hpc[r] = "idle"
    /\ MayRun(r)
    /\ \E req \in HttpRequests : request' = [request EXCEPT ![r] = req]
    /\ hpc' = [hpc EXCEPT ![r] = "verifying"]
    /\ UNCHANGED <<env, response, tpc, tracked, videoId, summary, log, call>>

\* The response leaves the handler.
Respond(r, reply) ==
    /\ response' = [response EXCEPT ![r] = reply]
    /\ Emit(r, <<[ev |-> "response", status |-> reply.status, type |-> reply.type]>>)
    /\ hpc' = [hpc EXCEPT ![r] = "responded"]

\* Faulty variant: the handler defers without having extracted the links.
Handle_DefersAtOnce(r, verified, dispatched) ==
    IF ~verified.isValid \/ ~verified.parsed
    THEN Respond(r, Response(401, 0, "Bad request signature.")) /\ UNCHANGED videoId
    ELSE IF dispatched.defer
    THEN /\ hpc' = [hpc EXCEPT ![r] = "deferred"]
         /\ videoId' = [videoId EXCEPT ![r] = dispatched.videoId]
         /\ UNCHANGED <<response, log>>
    ELSE Respond(r, dispatched.reply) /\ UNCHANGED videoId

\* The handler from the signature check to its first return: 401 for a bad
\* signature, a reply at once, or the links extracted, videoId kept and
\* deferredResponse built.
Handle(r, verified, dispatched) ==
    IF ~verified.isValid \/ ~verified.parsed
    THEN Respond(r, Response(401, 0, "Bad request signature.")) /\ UNCHANGED videoId
    ELSE IF dispatched.defer
    THEN /\ hpc' = [hpc EXCEPT ![r] = "deferred"]
         /\ videoId' = [videoId EXCEPT ![r] = dispatched.videoId]
         /\ Emit(r, <<Extracted(dispatched.videoId)>>)
         /\ UNCHANGED response
    ELSE Respond(r, dispatched.reply) /\ UNCHANGED videoId

\* verifyDiscordRequest settles and the handler runs on.
HandleInteraction(r) ==
    /\ hpc[r] = "verifying"
    /\ MayRun(r)
    /\ Handle(r, verifyDiscordRequest(request[r]), Dispatch(Interaction(r)))
    /\ UNCHANGED <<env, request, tpc, tracked, summary, call>>

\* Faulty variant: the task starts the follow-up write together with the
\* provider call instead of after it.
StartBackgroundTask_FansOut(r) ==
    /\ hpc[r] = "deferred"
    /\ hpc' = [hpc EXCEPT ![r] = "spawned"]
    /\ IF env.GEMINI_API_KEY # <<>>
       THEN /\ Emit(r, <<[ev |-> "generateContent", videoUrl |-> VideoUrl(videoId[r]),
                          videoId |-> videoId[r]],
                         [ev |-> "PATCH", applicationId |-> env.DISCORD_APPLICATION_ID,
                          token |-> r, content |-> <<>>]>>)
            /\ tpc' = [tpc EXCEPT ![r] = "await generateContent"]
            /\ UNCHANGED summary
       ELSE /\ Emit(r, <<Settled("summarizeWithGemini", "returned")>>)
            /\ summary' = [summary EXCEPT ![r] = KeyNotConfigured]
            /\ tpc' = [tpc EXCEPT ![r] = "await summarizeWithGemini"]
    /\ UNCHANGED <<env, request, response, tracked, videoId, call>>

\* The async arrow function is called: it runs up to its first await, which
\* is inside summarizeWithGemini.  Without an API key summarizeWithGemini
\* returns at once and the task waits for the resolved promise; with a key
\* it calls ai.models.generateContent and the task waits for the provider.
StartBackgroundTask(r) ==
    /\ hpc[r] = "deferred"
    /\ hpc' = [hpc EXCEPT ![r] = "spawned"]
    /\ IF CallsProvider(env)
       THEN /\ Emit(r, <<[ev |-> "generateContent", videoUrl |-> VideoUrl(videoId[r]),
                          videoId |-> videoId[r]]>>)
            /\ tpc' = [tpc EXCEPT ![r] = "await generateContent"]
            /\ UNCHANGED summary
       ELSE /\ Emit(r, <<Settled("summarizeWithGemini", "returned")>>)
            /\ summary' = [summary EXCEPT ![r] = KeyNotConfigured]
            /\ tpc' = [tpc EXCEPT ![r] = "await summarizeWithGemini"]
    /\ UNCHANGED <<env, request, response, tracked, videoId, call>>

\* Faulty variant: the promise is dropped, the runtime is not told of it.
WaitUntil_FireAndForget(r) ==
    /\ hpc[r] = "spawned"
    /\ hpc' = [hpc EXCEPT ![r] = "registered"]
    /\ UNCHANGED <<env, request, response, tpc, tracked, videoId, summary, log, call>>

\* c.executionCtx.waitUntil(promise)
WaitUntil(r) ==
    /\ hpc[r] = "spawned"
    /\ hpc' = [hpc EXCEPT ![r] = "registered"]
    /\ tracked' = [tracked EXCEPT ![r] = TRUE]
    /\ UNCHANGED <<env, request, response, tpc, videoId, summary, log, call>>

\* Faulty variant: the handler that has started the task answers with a
\* message of its own instead of the deferred acknowledgment.
ReturnDeferred_ChannelMessage(r) ==
    /\ hpc[r] = "registered"
    /\ Respond(r, Response(200, CHANNEL_MESSAGE_WITH_SOURCE, "Summarizing..."))
    /\ UNCHANGED <<env, request, tpc, tracked, videoId, summary, call>>

\* return deferredResponse
ReturnDeferred(r) ==
    /\ hpc[r] = "registered"
    /\ Respond(r, DeferredResponse)
    /\ UNCHANGED <<env, request, tpc, tracked, videoId, summary, call>>

(***************************************************************************)
(* The background task                                                     *)
(***************************************************************************)

\* A continuation of the task runs only after the handler's synchronous run.
TaskMayRun(r) == hpc[r] = "responded" /\ MayRun(r)

\* The first follow-up write, with the summary.
SummaryPatch(r, text) == Patch(env, Interaction(r), SummaryContent(Url(r), text))

\* The retry of the follow-up write, with the body of the failed response.
DegradedPatch(r, errorText) == Patch(env, Interaction(r), DegradedContent(errorText))

\* The follow-up write of the outer catch.
ApologyPatch(r) == Patch(env, Interaction(r), ApologyContent(Url(r)))

\* summarizeWithGemini returned without awaiting (no API key): the task
\* resumes and sends the first follow-up write.
SummaryReady(r) ==
    /\ tpc[r] = "await summarizeWithGemini"
    /\ TaskMayRun(r)
    /\ Emit(r, <<SummaryPatch(r, summary[r])>>)
    /\ tpc' = [tpc EXCEPT ![r] = "await edit"]
    /\ UNCHANGED <<env, request, hpc, response, tracked, videoId, summary, call>>

\* What the task does once the provider call has settled with outcome and
\* summarizeWithGemini with result: the first follow-up write, or the apology
\* from the outer catch when it threw.
AfterSummarize(r, outcome, result) ==
    IF result.threw
    THEN /\ Emit(r, <<ProviderSettled(outcome),
                      Settled("summarizeWithGemini", "threw"), ApologyPatch(r)>>)
         /\ tpc' = [tpc EXCEPT ![r] = "await apology"]
         /\ UNCHANGED summary
    ELSE /\ Emit(r, <<ProviderSettled(outcome),
                      Settled("summarizeWithGemini", "returned"), SummaryPatch(r, result)>>)
         /\ tpc' = [tpc EXCEPT ![r] = "await edit"]
         /\ summary' = [summary EXCEPT ![r] = result]

\* Faulty variant: a rejected provider call is made once more.
GenerateContentSettles_CallsAgain(r) ==
    /\ tpc[r] = "await generateContent"
    /\ TaskMayRun(r)
    /\ \E outcome \in ProviderOutcomes :
         IF outcome.settled = "rejected" /\ \A i \in 1..Len(log[r]) : log[r][i].ev # "provider"
         THEN /\ Emit(r, <<ProviderSettled(outcome),
                           [ev |-> "generateContent", videoUrl |-> VideoUrl(videoId[r]),
                            videoId |-> videoId[r]]>>)
              /\ UNCHANGED <<tpc, summary>>
         ELSE AfterSummarize(r, outcome, AfterGenerateContent(outcome))
    /\ UNCHANGED <<env, request, hpc, response, tracked, videoId, call>>

\* generateContent settles; summarizeWithGemini returns a text or throws.
GenerateContentSettles(r) ==
    /\ tpc[r] = "await generateContent"
    /\ TaskMayRun(r)
    /\ \E outcome \in ProviderOutcomes : AfterSummarize(r, outcome, AfterGenerateContent(outcome))
    /\ UNCHANGED <<env, request, hpc, response, tracked, videoId, call>>

\* Faulty variant: a rejected first PATCH is swallowed, the task just ends.
EditSettles_SwallowsRejection(r) ==
    /\ tpc[r] = "await edit"
    /\ TaskMayRun(r)
    /\ \E outcome \in FetchOutcomes :
         /\ Emit(r, <<Settled("edit", outcome)>>)
         /\ tpc' = [tpc EXCEPT ![r] = IF outcome = "not ok" THEN "await errorText" ELSE "done"]
    /\ UNCHANGED <<env, request, hpc, response, tracked, videoId, summary, call>>

\* The first PATCH settles: done when editResponse.ok, editResponse.text() is
\* awaited when not, the apology from the outer catch when fetch rejected.
EditSettles(r) ==
    /\ tpc[r] = "await edit"
    /\ TaskMayRun(r)
    /\ \E outcome \in FetchOutcomes :
         IF outcome = "ok"
         THEN /\ Emit(r, <<Settled("edit", outcome)>>)
              /\ tpc' = [tpc EXCEPT ![r] = "done"]
         ELSE IF outcome = "not ok"
         THEN /\ Emit(r, <<Settled("edit", outcome)>>)
              /\ tpc' = [tpc EXCEPT ![r] = "await errorText"]
         ELSE /\ Emit(r, <<Settled("edit", outcome), ApologyPatch(r)>>)
              /\ tpc' = [tpc EXCEPT ![r] = "await apology"]
    /\ UNCHANGED <<env, request, hpc, response, tracked, videoId, summary, call>>

\* Faulty variant: the retry repeats the summary instead of sending the error text.
ErrorTextSettles_RepeatsSummary(r) ==
    /\ tpc[r] = "await errorText"
    /\ TaskMayRun(r)
    /\ \E outcome \in BodyOutcomes :
         IF outcome.settled = "fulfilled"
         THEN /\ Emit(r, <<Settled("errorText", "fulfilled"), SummaryPatch(r, summary[r])>>)
              /\ tpc' = [tpc EXCEPT ![r] = "await retry"]
         ELSE /\ Emit(r, <<Settled("errorText", "rejected"), ApologyPatch(r)>>)
              /\ tpc' = [tpc EXCEPT ![r] = "await apology"]
    /\ UNCHANGED <<env, request, hpc, response, tracked, videoId, summary, call>>

\* editResponse.text() settles: the retry with the degraded payload, or the
\* apology from the outer catch when reading the body threw.
ErrorTextSettles(r) ==
    /\ tpc[r] = "await errorText"
    /\ TaskMayRun(r)
    /\ \E outcome \in BodyOutcomes :
         IF outcome.settled = "fulfilled"
         THEN /\ Emit(r, <<Settled("errorText", "fulfilled"), DegradedPatch(r, outcome.text)>>)
              /\ tpc' = [tpc EXCEPT ![r] = "await retry"]
         ELSE /\ Emit(r, <<Settled("errorText", "rejected"), ApologyPatch(r)>>)
              /\ tpc' = [tpc EXCEPT ![r] = "await apology"]
    /\ UNCHANGED <<env, request, hpc, response, tracked, videoId, summary, call>>

\* Faulty variant: a retry that failed is tried again.
RetrySettles_RetriesAgain(r) ==
    /\ tpc[r] = "await retry"
    /\ TaskMayRun(r)
    /\ \E outcome \in FetchOutcomes :
         IF outcome = "ok"
         THEN /\ Emit(r, <<Settled("retry", outcome)>>)
              /\ tpc' = [tpc EXCEPT ![r] = "done"]
         ELSE /\ Emit(r, <<Settled("retry", outcome), DegradedPatch(r, <<>>)>>)
              /\ tpc' = tpc
    /\ UNCHANGED <<env, request, hpc, response, tracked, videoId, summary, call>>

\* The retry settles: its response is not looked at, and a rejection is
\* caught by the inner try and logged.
RetrySettles(r) ==
    /\ tpc[r] = "await retry"
    /\ TaskMayRun(r)
    /\ \E outcome \in FetchOutcomes : Emit(r, <<Settled("retry", outcome)>>)
    /\ tpc' = [tpc EXCEPT ![r] = "done"]
    /\ UNCHANGED <<env, request, hpc, response, tracked, videoId, summary, call>>

\* Faulty variant: an apology that failed is sent once more.
ApologySettles_TriesAgain(r) ==
    /\ tpc[r] = "await apology"
    /\ TaskMayRun(r)
    /\ \E outcome \in FetchOutcomes :
         IF outcome = "ok"
         THEN /\ Emit(r, <<Settled("apology", outcome)>>)
              /\ tpc' = [tpc EXCEPT ![r] = "done"]
         ELSE /\ Emit(r, <<Settled("apology", outcome), ApologyPatch(r)>>)
              /\ tpc' = tpc
    /\ UNCHANGED <<env, request, hpc, response, tracked, videoId, summary, call>>

\* The apology settles: its response is not looked at; a rejection leaves
\* the catch block and rejects the promise given to waitUntil.
ApologySettles(r) ==
    /\ tpc[r] = "await apology"
    /\ TaskMayRun(r)
    /\ \E outcome \in FetchOutcomes :
         /\ Emit(r, <<Settled("apology", outcome)>>)
         /\ tpc' = [tpc EXCEPT ![r] = IF outcome = "rejected" THEN "rejected" ELSE "done"]
    /\ UNCHANGED <<env, request, hpc, response, tracked, videoId, summary, call>>

Next ==
    \E r \in Requests :
        \/ Receive(r)
        \/ HandleInteraction(r)
        \/ StartBackgroundTask(r)
        \/ WaitUntil(r)
        \/ ReturnDeferred(r)
        \/ SummaryReady(r)
        \/ GenerateContentSettles(r)
        \/ EditSettles(r)
        \/ ErrorTextSettles(r)
        \/ RetrySettles(r)
        \/ ApologySettles(r)

Spec == Init /\ [][Next]_vars

\* The same program where what is under way goes on: a handler that has begun
\* its synchronous run finishes it, every awaited call of a task settles and
\* the event loop runs the continuation (the runtime keeps alive a task whose
\* promise it was given).  Nothing obliges a request to arrive.
HandlerStep(r) == StartBackgroundTask(r) \/ WaitUntil(r) \/ ReturnDeferred(r)

TaskStep(r) ==
    \/ SummaryReady(r)
    \/ GenerateContentSettles(r)
    \/ EditSettles(r)
    \/ ErrorTextSettles(r)
    \/ RetrySettles(r)
    \/ ApologySettles(r)

FairSpec == Spec /\ \A r \in Requests : WF_vars(HandlerStep(r)) /\ WF_vars(TaskStep(r))

(***************************************************************************)
(* The background task of the earlier index.ts, next to the present one    *)
(***************************************************************************)

\* The first PATCH of the earlier task settles: its response is not looked
\* at, there is no retry; the apology from the catch block when fetch rejected.
EarlierEditSettles(r) ==
    /\ tpc[r] = "await edit"
    /\ TaskMayRun(r)
    /\ \E outcome \in FetchOutcomes :
         IF outcome = "rejected"
         THEN /\ Emit(r, <<Settled("edit", outcome), ApologyPatch(r)>>)
              /\ tpc' = [tpc EXCEPT ![r] = "await apology"]
         ELSE /\ Emit(r, <<Settled("edit", outcome)>>)
              /\ tpc' = [tpc EXCEPT ![r] = "done"]
    /\ UNCHANGED <<env, request, hpc, response, tracked, videoId, summary, call>>

\* The two tasks differ only in what follows the first PATCH: an invocation
\* goes on as the present task does or as the earlier one did.
BothTasksNext == Next \/ \E r \in Requests : EarlierEditSettles(r)

BothTasksSpec == Init /\ [][BothTasksNext]_vars

(***************************************************************************)
(* summarizeWithGemini on its own, over a larger set of provider outcomes  *)
(***************************************************************************)

\* The number of pieces an error message is put together from.
MaxMessagePieces == 2

MessagePieces ==
    {<<"A", "P", "I", " ", "k", "e", "y">>,
     <<"q", "u", "o", "t", "a">>,
     <<"b", "l", "o", "c", "k", "e", "d">>,
     <<"n", "o", "t", " ", "f", "o", "u", "n", "d">>,
     <<"q", "u", "o">>,
     <<"t", "a">>,
     <<"A", "P", "I">>,
     <<" ", "k", "e", "y">>,
     <<"Q", "u", "o", "t", "a", " ">>,
     <<"N", "O", "T", " ", "F", "O", "U", "N", "D">>}

RECURSIVE Messages(_)
Messages(n) ==
    IF n = 0 THEN {<<>>}
    ELSE Messages(n - 1) \cup {m \o p : m \in Messages(n - 1), p \in MessagePieces}

ErrorMessages == Messages(MaxMessagePieces)

AllProviderOutcomes ==
    ProviderOutcomes \cup {Rejected(ErrorObject(String(m))) : m \in ErrorMessages}

\* summarizeWithGemini is called: without a key it returns at once, with a
\* key it awaits ai.models.generateContent.
CallSummarize ==
    /\ call.pc = "none"
    /\ call' = IF CallsProvider(env)
               THEN [call EXCEPT !.pc = "await generateContent"]
               ELSE [call EXCEPT !.pc = "returned", !.result = KeyNotConfigured]
    /\ UNCHANGED <<env, request, hpc, response, tpc, tracked, videoId, summary, log>>

\* generateContent settles and summarizeWithGemini returns or throws.
ProviderSettles ==
    /\ call.pc = "await generateContent"
    /\ \E outcome \in AllProviderOutcomes :
         call' = [pc      |-> IF AfterGenerateContent(outcome).threw THEN "threw" ELSE "returned",
                  outcome |-> outcome,
                  result  |-> AfterGenerateContent(outcome)]
    /\ UNCHANGED <<env, request, hpc, response, tpc, tracked, videoId, summary, log>>

GeminiNext == CallSummarize \/ ProviderSettles

GeminiSpec == Init /\ [][GeminiNext]_vars

(***************************************************************************)
(* The earlier summarizeWithGemini, which calls the provider with fetch    *)
(* and looks at the HTTP status itself, next to the one of src/gemini.ts   *)
(***************************************************************************)

DigitChars == <<"0", "1", "2", "3", "4", "5", "6", "7", "8", "9">>

\* ${response.status}: a number in a template literal, in decimal.
RECURSIVE NumberToString(_)
NumberToString(n) ==
    IF n < 10 THEN <<DigitChars[n + 1]>>
    ELSE NumberToString(n \div 10) \o <<DigitChars[(n % 10) + 1]>>

\* ${error.message}: a string as it is, undefined and null by their names.
TemplateText(value) ==
    IF value.type = "undefined" THEN <<"u", "n", "d", "e", "f", "i", "n", "e", "d">>
    ELSE IF value.type = "null" THEN <<"n", "u", "l", "l">>
    ELSE value.chars

\* A Response of fetch; ok is true for the statuses 200..299.
HttpResponse(status, statusText) ==
    [status |-> status, statusText |-> statusText, ok |-> status \in 200..299]

\* Faulty variant: the status line is left out of the message.
HttpErrorMessage_BodyOnly(resp, errorText) ==
    Return("Gemini API error: ", errorText)

\* `Gemini API error: ${response.status} ${response.statusText}\n${errorText}`
HttpErrorMessage(resp, errorText) ==
    Return("Gemini API error: ",
           NumberToString(resp.status) \o <<" ">> \o resp.statusText
               \o <<"\n">> \o errorText)

FetchNoSummary == Return("Gemini API did not return a summary.", <<>>)

\* catch (error: any) { return `Error calling Gemini API: ${error.message}` }
FetchCatchBlock(error) ==
    IF error.type \in {"undefined", "null"} THEN Throw("TypeError")
    ELSE Return("Error calling Gemini API: ", TemplateText(error.message))

\* if (summary) return summary; else the no-summary message.
FetchSummary(text) ==
    IF text.type = "string" /\ text.chars # <<>> THEN Return("", text.chars)
    ELSE FetchNoSummary

HttpStatuses == {200, 204, 400, 404, 429, 500}

StatusTexts == {<<>>, <<"T", "o", "o", " ", "M", "a", "n", "y", " ", "R", "e", "q", "u", "e", "s", "t", "s">>}

BodyTexts == {<<>>, <<"q", "u", "o", "t", "a", " ", "e", "x", "c", "e", "e", "d", "e", "d">>, <<"A", "P", "I", " ", "k", "e", "y", " ", "n", "o", "t", " ", "v", "a", "l", "i", "d">>, <<"{", "\"", "e", "r", "r", "o", "r", "\"", ":", "{", "\"", "c", "o", "d", "e", "\"", ":", "5", "0", "0", "}", "}">>}

\* What fetch, response.text() and response.json() may settle with.
FetchErrors == {ErrorObject(String(<<"f", "e", "t", "c", "h", " ", "f", "a", "i", "l", "e", "d">>)), ErrorObject(Undefined)} \cup ThrownNullish

ProviderResponses == {HttpResponse(st, tx) : st \in HttpStatuses, tx \in StatusTexts}

TextOutcomes == {Resolved(String(b)) : b \in BodyTexts} \cup {Rejected(e) : e \in FetchErrors}

JsonOutcomes ==
    {Resolved(String(<<"A", " ", "s", "u", "m", "m", "a", "r", "y", ".">>)), Resolved(String(<<>>)), Resolved(Undefined)}
    \cup {Rejected(e) : e \in FetchErrors}

\* The error the SDK raises for an answer with a non-success status: it has
\* the status and a message made from the response body.
ApiError(status, body) == [type |-> "object", message |-> String(body), status |-> status]

HttpFailures ==
    {Rejected(ApiError(st, b)) : st \in {x \in HttpStatuses : x \notin 200..299}, b \in BodyTexts}

\* A call in the fetch variant: where it stands, the response and what the
\* last await settled with, and the result.
FetchCall(pc, resp, settled, result) ==
    [pc |-> pc, outcome |-> [response |-> resp, settled |-> settled], result |-> result]

NoHttpResponse == HttpResponse(0, <<>>)

Finished(result) == IF result.threw THEN "fetch threw" ELSE "fetch returned"

\* The fetch variant is called: without a key it returns at once, with a key
\* it awaits fetch.
CallFetchVariant ==
    /\ call.pc = "none"
    /\ call' = IF CallsProvider(env)
               THEN FetchCall("await fetch", NoHttpResponse, Resolved(Undefined), NoSummaryYet)
               ELSE FetchCall("fetch returned", NoHttpResponse, Resolved(Undefined), KeyNotConfigured)
    /\ UNCHANGED <<env, request, hpc, response, tpc, tracked, videoId, summary, log>>

\* fetch settles: a rejection goes to the catch block; a response that is not
\* ok has its text awaited, one that is ok its JSON.
FetchVariantSettles ==
    /\ call.pc = "await fetch"
    /\ \/ \E e \in FetchErrors :
            call' = FetchCall(Finished(FetchCatchBlock(e)), NoHttpResponse, Rejected(e),
                              FetchCatchBlock(e))
       \/ \E resp \in ProviderResponses :
            call' = FetchCall(IF resp.ok THEN "await json" ELSE "await text", resp,
                              Resolved(Undefined), NoSummaryYet)
    /\ UNCHANGED <<env, request, hpc, response, tpc, tracked, videoId, summary, log>>

\* What the fetch variant returns once response.text() has settled.
AfterText(resp, outcome) ==
    IF outcome.settled = "rejected" THEN FetchCatchBlock(outcome.error)
    ELSE HttpErrorMessage(resp, outcome.text.chars)

\* What the fetch variant returns once response.json() has settled.
AfterJson(outcome) ==
    IF outcome.settled = "rejected" THEN FetchCatchBlock(outcome.error)
    ELSE FetchSummary(outcome.text)

TextSettles ==
    /\ call.pc = "await text"
    /\ \E o \in TextOutcomes :
         call' = FetchCall(Finished(AfterText(call.outcome.response, o)),
                           call.outcome.response, o, AfterText(call.outcome.response, o))
    /\ UNCHANGED <<env, request, hpc, response, tpc, tracked, videoId, summary, log>>

JsonSettles ==
    /\ call.pc = "await json"
    /\ \E o \in JsonOutcomes :
         call' = FetchCall(Finished(AfterJson(o)), call.outcome.response, o, AfterJson(o))
    /\ UNCHANGED <<env, request, hpc, response, tpc, tracked, videoId, summary, log>>

\* The provider answers the SDK's request with a non-success status and
\* ai.models.generateContent rejects with the SDK's error.
ProviderAnswersNotOk ==
    /\ call.pc = "await generateContent"
    /\ \E outcome \in HttpFailures :
         call' = [pc      |-> IF AfterGenerateContent(outcome).threw THEN "threw" ELSE "returned",
                  outcome |-> outcome,
                  result  |-> AfterGenerateContent(outcome)]
    /\ UNCHANGED <<env, request, hpc, response, tpc, tracked, videoId, summary, log>>

SummarizerNext ==
    \/ CallFetchVariant
    \/ FetchVariantSettles
    \/ TextSettles
    \/ JsonSettles
    \/ CallSummarize
    \/ ProviderAnswersNotOk

SummarizerSpec == Init /\ [][SummarizerNext]_vars

(***************************************************************************)
(* containsYouTubeLink and extractYouTubeLinks on their own, over texts    *)
(* put together from URLs and other words, and the summarize case on the   *)
(* same texts                                                              *)
(***************************************************************************)

\* The number of words a text is put together from.
MaxTextParts == 2

\* URLs of the shapes the pattern is written for: the watch URL, the short
\* domain, the embed path, v as a later query parameter, upper case.  Each
\* ends with its video id.
UrlParts ==
    {<<"h", "t", "t", "p", "s", ":", "/", "/", "w", "w", "w", ".", "y", "o", "u", "t", "u", "b", "e", ".", "c", "o", "m", "/", "w", "a", "t", "c", "h", "?", "v", "=", "A", "A", "A", "A", "A", "A", "A", "A", "A", "A", "A">>,
     <<"h", "t", "t", "p", "s", ":", "/", "/", "y", "o", "u", "t", "u", ".", "b", "e", "/", "d", "Q", "w", "4", "w", "9", "W", "g", "X", "c", "Q">>,
     <<"w", "w", "w", ".", "y", "o", "u", "t", "u", "b", "e", ".", "c", "o", "m", "/", "e", "m", "b", "e", "d", "/", "B", "B", "B", "B", "B", "B", "B", "B", "B", "B", "B">>,
     <<"h", "t", "t", "p", ":", "/", "/", "y", "o", "u", "t", "u", "b", "e", ".", "c", "o", "m", "/", "w", "a", "t", "c", "h", "?", "t", "=", "9", "&", "v", "=", "a", "_", "b", "-", "C", "1", "2", "3", "4", "_", "5">>,
     <<"H", "T", "T", "P", "S", ":", "/", "/", "Y", "O", "U", "T", "U", ".", "B", "E", "/", "C", "C", "C", "C", "C", "C", "C", "C", "C", "C", "C">>}

\* Words that are no such URL: too short an id, other characters where the
\* id stands, no id at all, more characters than an id has.
OtherParts ==
    {<<"h", "e", "l", "l", "o">>,
     <<"y", "o", "u", "t", "u", ".", "b", "e", "/", "s", "h", "o", "r", "t">>,
     <<"y", "o", "u", "t", "u", ".", "b", "e", "/", "a", "b", "c", ".", "d", "e", "f", "!", "g", "h", "i">>,
     <<"h", "t", "t", "p", "s", ":", "/", "/", "w", "w", "w", ".", "y", "o", "u", "t", "u", "b", "e", ".", "c", "o", "m", "/", "w", "a", "t", "c", "h">>,
     <<"y", "o", "u", "t", "u", "b", "e", ".", "c", "o", "m", "/", "v", "/", "1", "2", "3", "4", "5", "6", "7", "8", "9", "0", "1", "2", "3", "4">>}

TextParts == UrlParts \cup OtherParts

RECURSIVE PartLists(_)
PartLists(n) ==
    IF n = 0 THEN {<<>>}
    ELSE PartLists(n - 1) \cup {Append(ps, p) : ps \in PartLists(n - 1), p \in TextParts}

\* The words with one space between them.
RECURSIVE JoinParts(_)
JoinParts(parts) ==
    IF parts = <<>> THEN <<>>
    ELSE IF Len(parts) = 1 THEN parts[1]
    ELSE parts[1] \o <<" ">> \o JoinParts(Tail(parts))

\* The texts the two functions are called with.
LinkInputs == PartLists(MaxTextParts)

\* What is known of one text: the words it was made of, the text, the
\* result of containsYouTubeLink and of extractYouTubeLinks, of a second call
\* of each, and what the summarize case does with the text as its url.
LinkCall(pc, parts, found, links, again, reply) ==
    [pc |-> pc, parts |-> parts, content |-> JoinParts(parts), found |-> found,
     links |-> links, again |-> again, reply |-> reply]

NotCalledAgain == [found |-> FALSE, links |-> <<>>]

\* containsYouTubeLink(url) is called.
CallContainsLink ==
    /\ call.pc = "none"
    /\ \E parts \in LinkInputs :
         call' = LinkCall("containsYouTubeLink returned", parts,
                          containsYouTubeLink(JoinParts(parts)), <<>>, NotCalledAgain,
                          NoResponse)
    /\ UNCHANGED <<env, request, hpc, response, tpc, tracked, videoId, summary, log>>

\* extractYouTubeLinks(url) is called on the text that was tested.
CallExtractLinks ==
    /\ call.pc = "containsYouTubeLink returned"
    /\ call' = [call EXCEPT !.pc = "extractYouTubeLinks returned",
                            !.links = extractYouTubeLinks(call.content)]
    /\ UNCHANGED <<env, request, hpc, response, tpc, tracked, videoId, summary, log>>

\* Both functions are called once more on the same text.
CallBothAgain ==
    /\ call.pc = "extractYouTubeLinks returned"
    /\ call' = [call EXCEPT !.pc = "called again",
                            !.again = [found |-> containsYouTubeLink(call.content),
                                       links |-> extractYouTubeLinks(call.content)]]
    /\ UNCHANGED <<env, request, hpc, response, tpc, tracked, videoId, summary, log>>

\* The summarize case runs with the text as the value of the url option.
SummarizeCase ==
    /\ call.pc = "called again"
    /\ call' = [call EXCEPT !.pc = "summarize returned", !.reply = SummarizeUrl(call.content)]
    /\ UNCHANGED <<env, request, hpc, response, tpc, tracked, videoId, summary, log>>

LinkNext == CallContainsLink \/ CallExtractLinks \/ CallBothAgain \/ SummarizeCase

LinkSpec == Init /\ [][LinkNext]_vars

(***************************************************************************)
(* Properties                                                              *)
(***************************************************************************)

\* The positions of the events of one kind in the log of r.
Indexes(r, ev) == {i \in 1..Len(log[r]) : log[r][i].ev = ev}

\* The outbound calls of r: the provider request and the follow-up writes.
Outbound(r) == Indexes(r, "generateContent") \cup Indexes(r, "PATCH")

Patches(r) == Indexes(r, "PATCH")

\* The deferred acknowledgment of r was returned before position i of its log.
AcknowledgedBefore(r, i) ==
    \E j \in Indexes(r, "response") :
        j < i /\ log[r][j].type = DEFERRED_CHANNEL_MESSAGE_WITH_SOURCE

\* The request of r carries both headers and a signature that verifies.
Authentic(r) == request[r].signature /\ request[r].timestamp /\ request[r].verifyKey

IsCommand(r) == Authentic(r) /\ request[r].body.type = APPLICATION_COMMAND

IsSummarize(r) ==
    /\ IsCommand(r)
    /\ request[r].body.data.present
    /\ toLowerCase(request[r].body.data.name) = <<"s", "u", "m", "m", "a", "r", "i", "z", "e">>

\* The background task of r is over (or was never started).
TaskOver(r) == tpc[r] \in {"none", "done", "rejected"}

\* An awaited call of r settled with the given outcome.
Happened(r, what, outcome) == \E i \in Indexes(r, what) : log[r][i].outcome = outcome

\* The follow-up write at position i goes to the message of r's own interaction.
ToOriginal(r, i) ==
    log[r][i].applicationId = env.DISCORD_APPLICATION_ID /\ log[r][i].token = r

\* C1 (as stated): for a summarize invocation no outbound call of the
\* background phase, neither the provider request nor a follow-up PATCH, is
\* started before the deferred acknowledgment has been returned.
C1_NoOutboundBeforeAcknowledgment ==
    \A r \in Requests : \A i \in Outbound(r) : AcknowledgedBefore(r, i)

\* C2 (as stated): every verified command gets exactly one synchronous reply,
\* and every summarize invocation whose handler and task are over has got
\* exactly one follow-up PATCH.
C2_ExactlyOneFollowUp ==
    \A r \in Requests :
        (IsCommand(r) /\ hpc[r] = "responded") =>
            /\ Cardinality(Indexes(r, "response")) = 1
            /\ (IsSummarize(r) /\ TaskOver(r)) => Cardinality(Patches(r)) = 1

\* C2 (amended): every verified command gets exactly one synchronous reply; a
\* summarize invocation gets follow-up PATCHes only when that reply is the
\* deferred acknowledgment, and then its finished task has issued one or two
\* of them, the second only after the first write failed (not ok or rejected).
C2_OneReplyOneOrTwoFollowUps ==
    \A r \in Requests :
        /\ Cardinality(Indexes(r, "response")) <= 1
        /\ Cardinality(Patches(r)) <= 2
        /\ (IsCommand(r) /\ hpc[r] = "responded") =>
              /\ Cardinality(Indexes(r, "response")) = 1
              /\ response[r].type # DEFERRED_CHANNEL_MESSAGE_WITH_SOURCE => Patches(r) = {}
              /\ (response[r].type = DEFERRED_CHANNEL_MESSAGE_WITH_SOURCE /\ TaskOver(r)) =>
                    /\ IsSummarize(r)
                    /\ Cardinality(Patches(r)) \in {1, 2}
                    /\ Cardinality(Patches(r)) = 2 =>
                          \E i \in Indexes(r, "edit") :
                              /\ log[r][i].outcome # "ok"
                              /\ \E p \in Patches(r) : p < i
                              /\ \E p \in Patches(r) : p > i

C2_Witness ==
    \E r \in Requests :
        /\ IsSummarize(r) /\ tpc[r] = "done" /\ Cardinality(Patches(r)) = 2
        /\ \E q \in Requests : IsSummarize(q) /\ tpc[q] = "done" /\ Cardinality(Patches(q)) = 1

\* The follow-up write carries the text the summarizer returned.
Carries(content, text) == content.msg = text.msg /\ content.text = text.text

\* C3: for a summarize command with a recognised URL, once the summarizer has
\* returned a text T and the task has resumed, the synchronous response is the
\* deferred type 5 and exactly one PATCH of .../messages/@original carries T,
\* issued after that response.
C3_DeferredThenOneSummaryWrite ==
    \A r \in Requests :
        (Happened(r, "summarizeWithGemini", "returned") /\ tpc[r] # "await summarizeWithGemini") =>
            /\ response[r] = Response(200, 5, "")
            /\ Cardinality({i \in Patches(r) : Carries(log[r][i].content, summary[r])}) = 1
            /\ \A i \in Patches(r) :
                  Carries(log[r][i].content, summary[r]) =>
                      /\ AcknowledgedBefore(r, i)
                      /\ ToOriginal(r, i)
                      /\ log[r][i].content.url = Url(r)

C3_Witness ==
    \E r \in Requests :
        /\ tpc[r] = "done"
        /\ summary[r] = Return("", <<"A", " ", "s", "u", "m", "m", "a", "r", "y", ".">>)
        /\ Happened(r, "retry", "ok")
        /\ Cardinality(Patches(r)) = 2

\* C4 (as stated): when the first follow-up write came back not ok, the task
\* makes exactly one more PATCH to the same message, with an error payload in
\* place of the summary, and whatever becomes of that write there is no
\* further write and the task's promise does not reject.
C4_OneRetryNeverRaises ==
    \A r \in Requests :
        Happened(r, "edit", "not ok") =>
            /\ tpc[r] # "rejected"
            /\ Cardinality(Patches(r)) <= 2
            /\ tpc[r] = "done" =>
                  /\ Cardinality(Patches(r)) = 2
                  /\ \A i \in Patches(r) :
                        /\ ToOriginal(r, i)
                        /\ (\E p \in Patches(r) : p < i) =>
                              log[r][i].content.kind # "YouTube Video Summary"

\* An exception was raised inside the task at position i of the log of r.
Raised(r, i) ==
    \/ log[r][i] = Settled("summarizeWithGemini", "threw")
    \/ log[r][i] = Settled("edit", "rejected")
    \/ log[r][i] = Settled("errorText", "rejected")

\* C5 (as stated): every exception raised inside the background task is
\* answered by the apology write of the outer catch, and the promise given
\* to waitUntil never rejects, also when the apology write itself fails.
C5_ExceptionsNeverPropagate ==
    \A r \in Requests :
        /\ tpc[r] # "rejected"
        /\ \A i \in 1..Len(log[r]) :
              Raised(r, i) => (i < Len(log[r]) /\ log[r][i + 1] = ApologyPatch(r))

\* C6: a request whose signature header or timestamp header is missing, or
\* whose signature does not verify, is answered with HTTP 401 and nothing
\* else happens: no dispatch, no background task, no outbound call.
C6_BadSignatureGets401 ==
    \A r \in Requests :
        (hpc[r] # "idle" /\ ~Authentic(r)) =>
            /\ Outbound(r) = {}
            /\ tpc[r] = "none" /\ ~tracked[r]
            /\ hpc[r] \in {"verifying", "responded"}
            /\ hpc[r] = "responded" =>
                  /\ response[r].status = 401
                  /\ log[r] = <<[ev |-> "response", status |-> 401, type |-> 0]>>

C6_Witness ==
    /\ \E r \in Requests :
          /\ hpc[r] = "responded" /\ response[r].status = 401
          /\ ~request[r].timestamp /\ request[r].signature /\ request[r].verifyKey
          /\ request[r].body.type = APPLICATION_COMMAND
    /\ \E r \in Requests :
          hpc[r] = "responded" /\ response[r].status = 401 /\ ~request[r].verifyKey

\* The options of the command hold no url option with a value.
NoUrlGiven(r) ==
    \A i \in 1..Len(request[r].body.data.options) :
        request[r].body.data.options[i].name = <<"u", "r", "l">> =>
            request[r].body.data.options[i].value = <<>>

\* C7: a summarize command with no url option, or with an empty url value, is
\* answered at once with a CHANNEL_MESSAGE_WITH_SOURCE reply that asks for a
\* URL, and there is no background task and no outbound call.
C7_MissingUrlAnsweredAtOnce ==
    \A r \in Requests :
        (IsSummarize(r) /\ NoUrlGiven(r) /\ hpc[r] # "verifying") =>
            /\ hpc[r] = "responded"
            /\ response[r] = Response(200, 4, "Please provide a YouTube URL to summarize.")
            /\ Outbound(r) = {}
            /\ tpc[r] = "none" /\ ~tracked[r]

C7_Witness ==
    /\ \E r \in Requests :
          /\ IsSummarize(r) /\ hpc[r] = "responded"
          /\ request[r].body.data.options = <<Option(<<"u", "r", "l">>, <<>>)>>
          /\ response[r].content = "Please provide a YouTube URL to summarize."
    /\ \E r \in Requests :
          /\ IsSummarize(r) /\ hpc[r] = "responded"
          /\ request[r].body.data.options = <<Option(<<"l", "a", "n", "g">>, <<"e", "n">>)>>
          /\ response[r].content = "Please provide a YouTube URL to summarize."

\* The url option of r has a value that holds no video URL.
UrlWithoutLink(r) ==
    \E i \in 1..Len(request[r].body.data.options) :
        /\ request[r].body.data.options[i].name = <<"u", "r", "l">>
        /\ request[r].body.data.options[i].value \in PlainTexts

\* C8: a summarize command whose url value does not match the video-URL
\* pattern is answered at once with a client-facing error reply, not the
\* deferred type; the handler never starts the background task for it and
\* there is no outbound call.
C8_UnrecognisedUrlAnsweredAtOnce ==
    \A r \in Requests :
        (IsSummarize(r) /\ UrlWithoutLink(r) /\ hpc[r] # "verifying") =>
            /\ hpc[r] = "responded"
            /\ response[r].status = 200
            /\ response[r].type = 4
            /\ response[r].content \in
                  {"Please provide a valid YouTube URL.",
                   "Could not extract video ID from the provided URL."}
            /\ Outbound(r) = {}
            /\ tpc[r] = "none" /\ ~tracked[r]

C8_Witness ==
    \A u \in {<<"h", "e", "l", "l", "o">>,
              <<"y", "o", "u", "t", "u", ".", "b", "e", "/", "d", "Q", "w", "4", "w", "?", "W", "g", "X", "c", "Q">>} :
        \E r \in Requests :
            /\ IsSummarize(r) /\ hpc[r] = "responded"
            /\ request[r].body.data.options = <<Option(<<"u", "r", "l">>, u)>>
            /\ response[r].content = "Please provide a valid YouTube URL."

\* C9 (as stated): whatever the provider call settles with, a text or no
\* text, or any thrown value, summarizeWithGemini returns a text and does
\* not throw.
C9_SummarizeNeverThrows ==
    /\ call.pc # "threw"
    /\ call.pc = "returned" => ~call.result.threw

\* The keywords of the classification in the order of the specification,
\* with the message each one selects.
Keywords ==
    <<<<"A", "P", "I", " ", "k", "e", "y">>,
      <<"q", "u", "o", "t", "a">>,
      <<"b", "l", "o", "c", "k", "e", "d">>,
      <<"n", "o", "t", " ", "f", "o", "u", "n", "d">>>>

KeywordMessages == <<InvalidKey, QuotaExceeded, ContentBlocked, VideoNotFound>>

\* The keywords that occur in an error text.
Occurring(text) == {k \in 1..Len(Keywords) : includes(text, Keywords[k])}

\* The provider call was rejected with an error whose message is a string.
RejectedWithText ==
    /\ call.pc \in {"returned", "threw"}
    /\ call.outcome.settled = "rejected"
    /\ call.outcome.error.type = "object"
    /\ call.outcome.error.message.type = "string"

\* C10: the classification of a provider error is a first-match-wins lookup
\* in the order "API key", "quota", "blocked", "not found": the message
\* returned is that of the earliest listed keyword the error text contains,
\* and the generic message with the error text when it contains none.
C10_FirstMatchWins ==
    RejectedWithText =>
        LET text == call.outcome.error.message.chars
        IN  /\ call.pc = "returned"
            /\ Occurring(text) # {} => call.result = KeywordMessages[MinOf(Occurring(text))]
            /\ Occurring(text) = {} =>
                  /\ call.result.msg = "Error calling Gemini API: "
                  /\ text # <<>> => call.result.text = text

C10_Witness ==
    /\ RejectedWithText
    /\ Occurring(call.outcome.error.message.chars) = {1, 2}
    /\ call.outcome.error.message.chars[1] = "q"
    /\ call.result = InvalidKey

\* The provider call of r was rejected, at position i of its log, with an
\* error whose message is a text.
ProviderThrewText(r, i) ==
    /\ log[r][i].ev = "provider"
    /\ log[r][i].settled.settled = "rejected"
    /\ log[r][i].settled.error.type = "object"
    /\ log[r][i].settled.error.message.type = "string"

ErrorTextAt(r, i) == log[r][i].settled.error.message.chars

\* A follow-up write after position i delivers the quota-exceeded text, and no
\* follow-up write of r embeds the text of the exception raised at i.
QuotaTextDelivered(r, i) ==
    /\ \E p \in Patches(r) :
          /\ p > i
          /\ ToOriginal(r, p)
          /\ log[r][p].content.kind = "YouTube Video Summary"
          /\ log[r][p].content.msg = "API quota exceeded"
          /\ log[r][p].content.text = <<>>
    /\ \A p \in Patches(r) : log[r][p].content.text # ErrorTextAt(r, i)

\* C11 (as stated): when the provider call throws an error whose text
\* contains "quota", the follow-up write delivers the quota-exceeded text and
\* not the raw exception text.
C11_QuotaErrorDeliversQuotaText ==
    \A r \in Requests : \A i \in 1..Len(log[r]) :
        (ProviderThrewText(r, i) /\ includes(ErrorTextAt(r, i), Keywords[2])) =>
            QuotaTextDelivered(r, i)

\* C11 (amended): when the provider call throws an error whose text contains
\* "quota" and does not contain "API key", the follow-up write delivers the
\* quota-exceeded text and does not embed the raw exception text.
C11_QuotaErrorWithoutApiKey ==
    \A r \in Requests : \A i \in 1..Len(log[r]) :
        (/\ ProviderThrewText(r, i)
         /\ includes(ErrorTextAt(r, i), Keywords[2])
         /\ ~includes(ErrorTextAt(r, i), Keywords[1])) =>
            QuotaTextDelivered(r, i)

C11_Witness ==
    \E r \in Requests : \E i \in 1..Len(log[r]) :
        /\ ProviderThrewText(r, i)
        /\ includes(ErrorTextAt(r, i), Keywords[2])
        /\ ~includes(ErrorTextAt(r, i), Keywords[1])
        /\ Happened(r, "edit", "ok")
        /\ tpc[r] = "done"

\* The invocation r was acknowledged with the deferred response.
Acknowledged(r) ==
    hpc[r] = "responded" /\ response[r].type = DEFERRED_CHANNEL_MESSAGE_WITH_SOURCE

\* A stage of the task of r failed at position i of its log.
FailureAt(r, i) ==
    \/ Raised(r, i)
    \/ log[r][i] = Settled("edit", "not ok")

\* A follow-up write of r after position i carries an error payload.
ErrorPayloadAfter(r, i) ==
    \E p \in Patches(r) :
        p > i /\ ToOriginal(r, p) /\ log[r][p].content.kind # "YouTube Video Summary"

\* No finished task of an acknowledged invocation is without a follow-up
\* write: every write went to the invocation's own message, an error string
\* of the summarizer was written, and each failure was followed by a write
\* with an error payload.
FailuresDelivered ==
    \A r \in Requests :
        (Acknowledged(r) /\ TaskOver(r)) =>
            /\ Patches(r) # {}
            /\ \A p \in Patches(r) : ToOriginal(r, p)
            /\ summary[r].msg # "" =>
                  \E p \in Patches(r) : Carries(log[r][p].content, summary[r])
            /\ \A i \in 1..Len(log[r]) : FailureAt(r, i) => ErrorPayloadAfter(r, i)

\* C12: an acknowledged summarize invocation eventually attempts a follow-up
\* write to its own message, and no failure after the acknowledgment (an
\* error string, a throwing summarizer, a failed follow-up write) ends the
\* task without a write that carries an error payload.
C12_FailureLeadsToDelivery ==
    /\ []FailuresDelivered
    /\ \A r \in Requests : Acknowledged(r) ~> (Patches(r) # {})

C12_Witness ==
    /\ \E r \in Requests :
          /\ Acknowledged(r) /\ tpc[r] = "done" /\ summary[r] = QuotaExceeded
          /\ Happened(r, "edit", "not ok") /\ Happened(r, "retry", "not ok")
    /\ \E r \in Requests :
          /\ Acknowledged(r) /\ tpc[r] = "done"
          /\ Happened(r, "summarizeWithGemini", "threw")

\* C13: the summarizer is called at most once per invocation: whatever fails,
\* there is at most one generative-AI request and one settlement of it, and
\* the only repetition in the flow is one more follow-up write after the
\* first one.
C13_SummarizerCalledAtMostOnce ==
    \A r \in Requests :
        /\ Cardinality(Indexes(r, "generateContent")) <= 1
        /\ Cardinality(Indexes(r, "provider")) <= 1
        /\ Cardinality(Indexes(r, "summarizeWithGemini")) <= 1
        /\ Cardinality(Indexes(r, "retry")) <= 1
        /\ Cardinality(Patches(r)) <= 2
        /\ (Acknowledged(r) /\ TaskOver(r)) =>
              Cardinality(Indexes(r, "generateContent")) = IF CallsProvider(env) THEN 1 ELSE 0

C13_Witness ==
    \E r \in Requests :
        /\ tpc[r] = "done"
        /\ \E i \in 1..Len(log[r]) : ProviderThrewText(r, i)
        /\ Happened(r, "edit", "not ok")
        /\ Happened(r, "retry", "rejected")
        /\ Cardinality(Indexes(r, "generateContent")) = 1

\* The video id the handler takes from each url value that holds a link.
FirstVideoIdOf == [u \in LinkTexts |-> extractYouTubeLinks(u)[1].videoId]

\* What r has sent out comes from r's own interaction: each follow-up write
\* has r's token, the summary write carries r's url and r's summary, the
\* apology r's url, and the provider is asked about the video of r's url.
OwnData(r) ==
    /\ \A p \in Patches(r) :
          /\ ToOriginal(r, p)
          /\ log[r][p].content.kind = "YouTube Video Summary" =>
                /\ log[r][p].content.url = Url(r)
                /\ Carries(log[r][p].content, summary[r])
          /\ log[r][p].content.kind = "Sorry, I couldn't summarize this video. Please try again later." =>
                log[r][p].content.url = Url(r)
    /\ \A i \in Indexes(r, "generateContent") :
          /\ log[r][i].videoId = FirstVideoIdOf[Url(r)]
          /\ log[r][i].videoUrl = VideoUrl(log[r][i].videoId)

\* A step that adds to what r sent out leaves every other invocation as it was.
OwnStep(r) ==
    log'[r] # log[r] =>
        \A q \in Requests \ {r} :
            /\ log'[q] = log[q] /\ summary'[q] = summary[q] /\ videoId'[q] = videoId[q]
            /\ request'[q] = request[q] /\ response'[q] = response[q]
            /\ tpc'[q] = tpc[q] /\ hpc'[q] = hpc[q] /\ tracked'[q] = tracked[q]

\* C14: concurrent summarize invocations are independent: under every
\* interleaving each follow-up write of an invocation has that invocation's
\* token and carries what was produced for its own url, and no step of one
\* invocation changes anything of another.
C14_InvocationsAreIndependent ==
    /\ [](\A r \in Requests : OwnData(r))
    /\ [][\A r \in Requests : OwnStep(r)]_vars

C14_Witness ==
    \E r \in Requests : \E q \in Requests \ {r} :
        /\ tpc[r] = "await retry" /\ tpc[q] = "await apology"
        /\ Url(r) # Url(q)
        /\ summary[r] # summary[q]

\* C15: the task's promise is given to executionCtx.waitUntil before the
\* deferred response is returned: a task that exists is tracked by the runtime
\* in every state but the one inside the handler's synchronous run where the
\* async function has been called and waitUntil has not yet received its
\* promise; once the response is returned, and whenever the task is resumed,
\* it is tracked, and nothing else is ever registered.
C15_TaskTrackedBeforeResponse ==
    \A r \in Requests :
        /\ (tpc[r] # "none" /\ hpc[r] # "spawned") => tracked[r]
        /\ hpc[r] = "spawned" => (response[r] = NoResponse /\ \A q \in Requests \ {r} : ~MayRun(q))
        /\ Acknowledged(r) => tracked[r]
        /\ tracked[r] => tpc[r] # "none"

C15_Witness ==
    /\ \E r \in Requests :
          hpc[r] = "registered" /\ tracked[r] /\ response[r] = NoResponse /\ tpc[r] # "none"
    /\ \E r \in Requests :
          Acknowledged(r) /\ tracked[r] /\ tpc[r] = "await errorText"

\* The positions in the log of r of the deferred acknowledgment, and of the
\* summarizer being called or having settled.
AckIndexes(r) ==
    {i \in Indexes(r, "response") : log[r][i].type = DEFERRED_CHANNEL_MESSAGE_WITH_SOURCE}

SummarizerIndexes(r) ==
    Indexes(r, "generateContent") \cup Indexes(r, "provider") \cup Indexes(r, "summarizeWithGemini")

\* Every position of A comes before every position of B.
Before(A, B) == \A i \in A : \A j \in B : i < j

AnsweredAtOnce(r, reply) ==
    /\ hpc[r] = "responded"
    /\ response[r] = reply
    /\ log[r] = <<[ev |-> "response", status |-> reply.status, type |-> reply.type]>>
    /\ tpc[r] = "none" /\ ~tracked[r]

\* C17: a verified ping gets the PONG acknowledgment whatever else its
\* payload holds, with no outbound call and no background task.
C17_PingGetsPong ==
    \A r \in Requests :
        (Authentic(r) /\ request[r].body.type = PING /\ hpc[r] # "verifying") =>
            AnsweredAtOnce(r, Response(200, PONG, ""))

C17_Witness ==
    /\ \E r \in Requests :
          /\ Authentic(r) /\ request[r].body.type = PING /\ hpc[r] = "responded"
          /\ request[r].body.data.present
    /\ \E r \in Requests :
          /\ Authentic(r) /\ request[r].body.type = PING /\ hpc[r] = "responded"
          /\ ~request[r].body.data.present

\* The command of r has no data, or a name that is neither about nor
\* summarize when letter case is ignored.
UnknownCommand(r) ==
    /\ IsCommand(r)
    /\ \/ ~request[r].body.data.present
       \/ toLowerCase(request[r].body.data.name) \notin
              {<<"a", "b", "o", "u", "t">>, <<"s", "u", "m", "m", "a", "r", "i", "z", "e">>}

\* C18: a verified command with an unknown name or without command data gets
\* HTTP 400, a verified interaction that is neither a ping nor a command gets
\* the informational reply, and neither causes an outbound call or a task.
C18_UnknownCommandGets400 ==
    \A r \in Requests :
        /\ (UnknownCommand(r) /\ hpc[r] # "verifying") =>
              AnsweredAtOnce(r, Response(400, 0, "Unknown Command"))
        /\ (Authentic(r) /\ request[r].body.type \notin {PING, APPLICATION_COMMAND}
                /\ hpc[r] # "verifying") =>
              AnsweredAtOnce(r, Response(200, CHANNEL_MESSAGE_WITH_SOURCE,
                                         "I'm a YouTube summarizer bot!"))
        /\ (IsCommand(r) /\ ~UnknownCommand(r) /\ hpc[r] = "responded") =>
              response[r].status = 200

C18_Witness ==
    /\ \E r \in Requests :
          UnknownCommand(r) /\ hpc[r] = "responded" /\ ~request[r].body.data.present
    /\ \E r \in Requests :
          /\ Authentic(r) /\ hpc[r] = "responded"
          /\ request[r].body.type \notin {PING, APPLICATION_COMMAND}

\* C19: without the credential summarizeWithGemini returns the
\* configuration-error message and no request goes to the provider, and a
\* deferred invocation whose task has resumed has written a follow-up that
\* carries that message.
C19_MissingKeyIsReported ==
    env.GEMINI_API_KEY = <<>> =>
        \A r \in Requests :
            /\ Indexes(r, "generateContent") = {}
            /\ Indexes(r, "provider") = {}
            /\ summary[r] \in {NoSummaryYet, KeyNotConfigured}
            /\ tpc[r] # "none" => summary[r] = KeyNotConfigured
            /\ ~Happened(r, "summarizeWithGemini", "threw")
            /\ (Acknowledged(r) /\ tpc[r] \notin {"none", "await summarizeWithGemini"}) =>
                  \E p \in Patches(r) :
                      /\ ToOriginal(r, p)
                      /\ log[r][p].content.kind = "YouTube Video Summary"
                      /\ Carries(log[r][p].content, KeyNotConfigured)

C19_Witness ==
    /\ env.GEMINI_API_KEY = <<>>
    /\ \E r \in Requests :
          tpc[r] = "done" /\ Happened(r, "edit", "ok") /\ Cardinality(Patches(r)) = 1

\* The fetch variant got a response with a non-success status and has read
\* its body.
FetchAnsweredNotOk ==
    /\ call.pc = "fetch returned"
    /\ call.outcome.response \in ProviderResponses
    /\ ~call.outcome.response.ok
    /\ call.outcome.settled.settled = "fulfilled"

\* The SDK variant had its request answered with a non-success status.
SdkAnsweredNotOk ==
    /\ call.pc \in {"returned", "threw"}
    /\ call.outcome \in HttpFailures

\* The result is the message made of the status code, the status text and
\* the response body.
EmbedsStatusAndBody(result, status, statusText, body) ==
    /\ ~result.threw
    /\ result.msg = "Gemini API error: "
    /\ result.text = NumberToString(status) \o <<" ">> \o statusText \o <<"\n">> \o body

\* C20 (as stated): when the provider answers the content-generation request
\* with a non-success HTTP status, summarize returns the message that embeds
\* the status code and the response body, not one of the other messages.
C20_StatusAndBodyEmbedded ==
    /\ FetchAnsweredNotOk =>
          EmbedsStatusAndBody(call.result, call.outcome.response.status,
                              call.outcome.response.statusText,
                              call.outcome.settled.text.chars)
    /\ SdkAnsweredNotOk =>
          /\ call.result.msg = "Gemini API error: "
          /\ includes(call.result.text, NumberToString(call.outcome.error.status))
          /\ includes(call.result.text, call.outcome.error.message.chars)

\* C20 (amended): the fetch variant returns the message with the status code,
\* the status text and the body for a response that is not ok; the SDK
\* variant has no such message: a non-success status reaches it as an error
\* of the SDK and is classified like every provider error, by keyword or as
\* the generic message with the error text.
C20_StatusEmbeddedByFetchVariantOnly ==
    /\ FetchAnsweredNotOk =>
          EmbedsStatusAndBody(call.result, call.outcome.response.status,
                              call.outcome.response.statusText,
                              call.outcome.settled.text.chars)
    /\ call.pc \in {"returned", "threw"} => call.result.msg # "Gemini API error: "
    /\ SdkAnsweredNotOk =>
          LET text == call.outcome.error.message.chars
          IN  /\ call.pc = "returned"
              /\ Occurring(text) # {} => call.result = KeywordMessages[MinOf(Occurring(text))]
              /\ Occurring(text) = {} =>
                    /\ call.result.msg = "Error calling Gemini API: "
                    /\ call.result.text = IF text = <<>> THEN UnknownErrorText ELSE text

C20_Witness ==
    /\ FetchAnsweredNotOk
    /\ call.outcome.response.status = 429
    /\ call.outcome.response.statusText = <<"T", "o", "o", " ", "M", "a", "n", "y", " ", "R", "e", "q", "u", "e", "s", "t", "s">>
    /\ call.outcome.settled.text.chars = <<"q", "u", "o", "t", "a", " ", "e", "x", "c", "e", "e", "d", "e", "d">>
    /\ call.result.text = <<"4", "2", "9", " ", "T", "o", "o", " ", "M", "a", "n", "y", " ", "R", "e", "q", "u", "e", "s", "t", "s", "\n", "q", "u", "o", "t", "a", " ", "e", "x", "c", "e", "e", "d", "e", "d">>

(***************************************************************************)
(* The link functions                                                      *)
(***************************************************************************)

\* The characters of a YouTube video id: letters, digits, "-" and "_".
IdAlphabet ==
    DOMAIN LowerMap \cup {LowerMap[c] : c \in DOMAIN LowerMap}
    \cup {"0", "1", "2", "3", "4", "5", "6", "7", "8", "9", "-", "_"}

WellFormedId(id) == Len(id) = VideoIdLength /\ \A k \in 1..Len(id) : id[k] \in IdAlphabet

\* extractYouTubeLinks has returned for the text of the call.
LinksReturned == call.pc \in {"extractYouTubeLinks returned", "called again", "summarize returned"}

\* C21: every entry extractYouTubeLinks returns has a videoId of exactly 11
\* characters, all of the identifier alphabet, and containsYouTubeLink is true
\* (and an entry is returned) for every text that holds one of the URL shapes.
C21_IdsWellFormedAndUrlsFound ==
    LinksReturned =>
        /\ \A i \in 1..Len(call.links) : WellFormedId(call.links[i].videoId)
        /\ (\E i \in 1..Len(call.parts) : call.parts[i] \in UrlParts) =>
              call.found /\ call.links # <<>>

\* The video id a URL of UrlParts ends with.
IdOf(u) == SubSeq(u, Len(u) - VideoIdLength + 1, Len(u))

\* The text of the call is made of URLs only.
UrlsOnly == \A i \in 1..Len(call.parts) : call.parts[i] \in UrlParts

\* C22: for a text made of URLs, extractYouTubeLinks returns one entry per
\* URL, in the order of the text, each with the URL and its video id, and the
\* summarize case defers with the video id of the leftmost URL, from which the
\* canonical URL for the summarizer is built.
C22_OneEntryPerUrlFirstUsed ==
    (call.pc = "summarize returned" /\ UrlsOnly /\ call.parts # <<>>) =>
        /\ Len(call.links) = Len(call.parts)
        /\ \A i \in 1..Len(call.links) :
              /\ call.links[i].url = call.parts[i]
              /\ call.links[i].videoId = IdOf(call.parts[i])
        /\ call.reply.defer
        /\ VideoUrl(call.reply.videoId) = VideoUrl(IdOf(call.parts[1]))

FirstWriteFailedAt(r, i) == i \in Indexes(r, "edit") /\ log[r][i].outcome # "ok"

\* The task of r made a second write: the first one rejected, or it answered
\* not ok and the task went on to read the body of the answer.
WentOnAfterFailure(r) ==
    Happened(r, "edit", "rejected") \/ Indexes(r, "errorText") # {}

\* C23: on every path of the background task, of the present and of the
\* earlier index.ts, a finished task has made one or two follow-up writes,
\* never more; two exactly on the paths where the first write rejected or
\* answered not ok and was followed up, and the second one is made only after
\* the first has failed.
C23_OneOrTwoWritesSecondAfterFailure ==
    \A r \in Requests :
        /\ Cardinality(Patches(r)) <= 2
        /\ \A p, q \in Patches(r) : p < q => \E i \in (p + 1)..(q - 1) : FirstWriteFailedAt(r, i)
        /\ tpc[r] \in {"done", "rejected"} =>
              Cardinality(Patches(r)) = IF WentOnAfterFailure(r) THEN 2 ELSE 1

C23_Witness ==
    /\ \E r \in Requests :
         /\ tpc[r] = "done"
         /\ Happened(r, "errorText", "rejected")
         /\ Cardinality(Patches(r)) = 2
    /\ \E r \in Requests :
         /\ tpc[r] = "done"
         /\ Happened(r, "edit", "not ok")
         /\ Cardinality(Patches(r)) = 1

\* The background task of r was started.
TaskStarted(r) == tpc[r] # "none"

\* The async function of the task has settled: it returned, or the apology
\* write of its catch block threw.
TaskSettled(r) == tpc[r] \in {"done", "rejected"}

\* One call at a time, one after another: at most one call of the summarizer
\* and of the provider and at most two follow-up writes; a write is started
\* only after summarizeWithGemini has settled, and a second write only after
\* the first one has.
OneCallAtATime ==
    \A r \in Requests :
        /\ Cardinality(Indexes(r, "generateContent")) <= 1
        /\ Cardinality(Indexes(r, "summarizeWithGemini")) <= 1
        /\ Cardinality(Patches(r)) <= 2
        /\ \A p \in Patches(r) : \E i \in Indexes(r, "summarizeWithGemini") : i < p
        /\ \A g \in Indexes(r, "generateContent"), p \in Patches(r) :
              g < p /\ \E i \in Indexes(r, "provider") : g < i /\ i < p
        /\ \A p, q \in Patches(r) : p < q => \E i \in Indexes(r, "edit") : p < i /\ i < q
        /\ TaskSettled(r) =>
              \A p \in Patches(r) :
                  \E i \in Indexes(r, "edit") \cup Indexes(r, "retry") \cup Indexes(r, "apology") :
                      i > p

\* C24: when every awaited call settles, a background task that was started
\* always comes to its end; it has then made at most one summarizer call and
\* at most two follow-up writes, each started only after the call before it
\* has settled.
C24_TaskTerminatesSequentially ==
    /\ []OneCallAtATime
    /\ \A r \in Requests : TaskStarted(r) ~> TaskSettled(r)

C24_Witness ==
    \E r \in Requests :
        /\ tpc[r] = "done"
        /\ Indexes(r, "generateContent") # {}
        /\ Indexes(r, "retry") # {}
        /\ Cardinality(Patches(r)) = 2

\* The synchronous response of r is the deferred acknowledgment.
AnsweredDeferred(r) == response[r].type = DEFERRED_CHANNEL_MESSAGE_WITH_SOURCE

\* C25: a background task is scheduled exactly when the synchronous response
\* is the deferred type.  A request answered with anything else (PONG, a
\* channel message, 400, 401) has no task, no provider request and no
\* follow-up write; a request answered with the deferred type has one task,
\* handed to waitUntil, with at most one summarizer call; and calls are made
\* only by handlers that went the deferred path.
C25_TaskIffDeferred ==
    \A r \in Requests :
        /\ hpc[r] = "responded" =>
              /\ AnsweredDeferred(r) <=> TaskStarted(r)
              /\ AnsweredDeferred(r) =>
                    /\ tracked[r]
                    /\ Cardinality(Indexes(r, "extract")) = 1
                    /\ Cardinality(Indexes(r, "summarizeWithGemini")) <= 1
              /\ ~AnsweredDeferred(r) =>
                    /\ response[r].type \in {PONG, CHANNEL_MESSAGE_WITH_SOURCE, 0}
                    /\ response[r].type = 0 => response[r].status \in {400, 401}
                    /\ Outbound(r) = {}
                    /\ Indexes(r, "summarizeWithGemini") = {}
                    /\ ~tracked[r]
        /\ (Outbound(r) # {} \/ TaskStarted(r)) =>
              /\ hpc[r] \in {"spawned", "registered", "responded"}
              /\ Indexes(r, "extract") # {}

C25_Witness ==
    /\ \E r \in Requests :
         /\ hpc[r] = "responded"
         /\ AnsweredDeferred(r)
         /\ Patches(r) # {}
         /\ Indexes(r, "generateContent") # {}
    /\ \E r \in Requests :
         /\ hpc[r] = "responded"
         /\ response[r].type = CHANNEL_MESSAGE_WITH_SOURCE
         /\ IsSummarize(r)
         /\ Outbound(r) = {}

====
